---- MODULE Spec2Model ----
(***************************************************************************)
(* A model of tracktorio's simulation core (src/src/main.rs): the id       *)
(* generator, the track graph and its A* router, the resource registry,    *)
(* factories and their per-tick flow, and trains (target selection, cargo  *)
(* transfer, kinematic advance, tail truncation).                          *)
(*                                                                         *)
(* Numbers.  The program computes in f32.  The model computes in exact     *)
(* integers: amounts, lengths, speeds and delta_time are integers, a ratio *)
(* is an exact fraction, and node positions are drawn from point sets      *)
(* whose pairwise Euclidean distances are integers, so that every length,  *)
(* product and quotient the program forms is exact here (an inexact one    *)
(* stops TLC instead of being rounded).  Rounding error of f32             *)
(* is outside the model.                                                   *)
(*                                                                         *)
(* Option<T> is a sequence: <<>> is None and <<x>> is Some(x).             *)
(***************************************************************************)
EXTENDS Integers, Sequences, FiniteSets, TLC

VARIABLES
    id_gen,       \* Game.id_gen.next
    tracks,       \* Game.tracks.nodes : Id -> [pos, connections]
    resources,    \* Game.resources    : Id -> name
    factories,    \* Game.factories    : Id -> [ty, io]
    trains,       \* Game.trains       : Id -> Train
    ticks,        \* history: number of update calls so far
    delta_time,   \* history: the delta_time of the last update call
    odo,          \* history: per train, the route committed last, the advance since, failed selections
    route         \* the last answer of a router query (SpecRoute)

vars == <<id_gen, tracks, resources, factories, trains, ticks, delta_time, odo, route>>

----------------------------------------------------------------------------
(* Bounds of the model *)

MaxNodes == 3
MaxIds == 6
MaxTicks == 2
MaxRouteNodes == 4
MaxHaulTicks == 8
MaxDepotTicks == 10

----------------------------------------------------------------------------
(* Configuration (assets/config.toml, assets/factories.toml) *)

capacity == 10
train_load_speed == 5
train_speed == 5
train_length == 15
\* the tolerance of f32::approx_eq; amounts are counted in halves of it
DEFAULT_EPS == 2

None == <<>>
Some(x) == <<x>>

factory_types ==
    << [name |-> "mine", radius |-> 3,
        io |-> << [type |-> "Output", resource |-> "ore", speed |-> Some(3)] >>],
       [name |-> "smelter", radius |-> 3,
        io |-> << [type |-> "Input", resource |-> "ore", speed |-> Some(2)],
                  [type |-> "Output", resource |-> "metal", speed |-> Some(2)] >>],
       [name |-> "depot", radius |-> 4,
        io |-> << [type |-> "Input", resource |-> "metal", speed |-> None] >>] >>

\* a lookup that wraps an index beyond the catalog around to its start
factory_types_get_wrapping(index) ==
    Some(factory_types[(index % Len(factory_types)) + 1])

\* FactoryTypes::get: Some(entry) inside the catalog, None outside (index from 0)
factory_types_get(index) ==
    IF index + 1 \in DOMAIN factory_types THEN Some(factory_types[index + 1]) ELSE None

----------------------------------------------------------------------------
(* Arithmetic *)

Abs(x) == IF x < 0 THEN -x ELSE x
Min(a, b) == IF a <= b THEN a ELSE b
Max(a, b) == IF a >= b THEN a ELSE b

RECURSIVE Gcd(_, _)
Gcd(a, b) == IF b = 0 THEN a ELSE Gcd(b, a % b)

\* an exact quotient: TLC stops if b does not divide a
ExactDiv(a, b) == CHOOSE q \in {a \div b} : q * b = a

\* a / b as a fraction in lowest terms (b > 0)
Frac(a, b) == LET g == Gcd(a, b) IN [num |-> a \div g, den |-> b \div g]
FracLt(p, q) == p.num * q.den < q.num * p.den
\* x * (p.num / p.den), exact
FracTimes(x, p) == ExactDiv(x * p.num, p.den)

\* f32::approx_eq: the distance is below the tolerance
approx_eq_exact(a, b) == a = b
approx_eq(a, b) == Abs(a - b) < DEFAULT_EPS

\* (p - q).len(): the Euclidean distance, exact on the point sets of the model
vec_len(p, q) ==
    LET dx == Abs(p[1] - q[1])
        dy == Abs(p[2] - q[2])
    IN CHOOSE r \in Max(dx, dy)..(dx + dy) : r * r = dx * dx + dy * dy

Last(s) == s[Len(s)]
Front(s) == SubSeq(s, 1, Len(s) - 1)
Reverse(s) == [i \in 1..Len(s) |-> s[Len(s) + 1 - i]]

\* the elements of a set of ids in ascending / descending order: the two
\* iteration orders of a hash container the model considers
RECURSIVE Ascending(_)
Ascending(S) ==
    IF S = {} THEN <<>>
    ELSE LET m == CHOOSE x \in S : \A y \in S : x <= y IN <<m>> \o Ascending(S \ {m})
InOrder(S, ord) == IF ord = "asc" THEN Ascending(S) ELSE Reverse(Ascending(S))
IterOrders == {"asc", "desc"}

\* every order in which a hash container may iterate over S
Perms(S) ==
    {p \in [1..Cardinality(S) -> S] : \A i, j \in 1..Cardinality(S) : p[i] = p[j] => i = j}

----------------------------------------------------------------------------
(* The game as one value *)

Game ==
    [id_gen |-> id_gen, tracks |-> tracks, resources |-> resources,
     factories |-> factories, trains |-> trains]

\* Game::new: empty containers, IdGen::new
NewGame ==
    [id_gen |-> 0, tracks |-> <<>>, resources |-> <<>>, factories |-> <<>>, trains |-> <<>>]

----------------------------------------------------------------------------
(* Id generator *)

\* a generator that hands out its counter and forgets to advance it
IdGen_gen_repeating(g) == [id |-> g.id_gen, g |-> g]

\* IdGen::gen: the id issued, and the generator after it
IdGen_gen(g) == [id |-> g.id_gen, g |-> [g EXCEPT !.id_gen = g.id_gen + 1]]

----------------------------------------------------------------------------
(* Tracks *)

\* TrackNode::new and Collection::insert: a fresh isolated node at pos
TrackNode_new(g, pos) ==
    LET n == IdGen_gen(g)
    IN [id |-> n.id,
        g |-> [n.g EXCEPT !.tracks = g.tracks @@ (n.id :> [pos |-> pos, connections |-> {}])]]

add_connection_one_way(nodes, a, b) ==
    [nodes EXCEPT ![a].connections = nodes[a].connections \cup {b}]

\* a connection that replaces what a was connected to
add_connection_replacing(nodes, a, b) ==
    LET n1 == [nodes EXCEPT ![a].connections = {b}]
    IN [n1 EXCEPT ![b].connections = n1[b].connections \cup {a}]

\* Tracks::add_connection: b into a's set, then a into b's set
add_connection(nodes, a, b) ==
    LET n1 == [nodes EXCEPT ![a].connections = nodes[a].connections \cup {b}]
    IN [n1 EXCEPT ![b].connections = n1[b].connections \cup {a}]

\* Tracks::segment_length
segment_length(nodes, from, to) == vec_len(nodes[from].pos, nodes[to].pos)

(* pathfinding::directed::astar::astar, as Tracks::pathfind calls it.
   parents is the insertion-ordered map node -> (parent index, cost), a
   sequence here (index from 1, parent 0 for the start); to_see is the heap
   of [estimated_cost, cost, index].  The heap pops the least estimated
   cost, and among equals the greatest cost; what remains equal, and the
   order in which a node's connections are visited (a HashSet), is left to
   the container: ord.heap and ord.succ choose among the orders modelled. *)

IndexOf(parents, node) ==
    IF \E i \in DOMAIN parents : parents[i].node = node
    THEN CHOOSE i \in DOMAIN parents : parents[i].node = node
    ELSE 0

astar_pop(to_see, ord) ==
    LET least == {e \in to_see : \A o \in to_see : e.estimated_cost <= o.estimated_cost}
        deep == {e \in least : \A o \in least : e.cost >= o.cost}
    IN IF ord.heap = "asc"
       THEN CHOOSE e \in deep : \A o \in deep : e.index <= o.index
       ELSE CHOOSE e \in deep : \A o \in deep : e.index >= o.index

RECURSIVE astar_reverse_path(_, _)
astar_reverse_path(parents, index) ==
    IF index = 0 THEN <<>>
    ELSE astar_reverse_path(parents, parents[index].parent) \o <<parents[index].node>>

RECURSIVE astar_successors(_, _, _, _, _, _, _)
astar_successors(nodes, goal, succ, index, cost, to_see, parents) ==
    IF succ = <<>> THEN [to_see |-> to_see, parents |-> parents]
    ELSE LET u == Head(succ)
             v == parents[index].node
             new_cost == cost + segment_length(nodes, v, u)
             h == segment_length(nodes, u, goal)
             at == IndexOf(parents, u)
         IN IF at = 0
            THEN astar_successors(nodes, goal, Tail(succ), index, cost,
                    to_see \cup {[estimated_cost |-> new_cost + h, cost |-> new_cost,
                                  index |-> Len(parents) + 1]},
                    Append(parents, [node |-> u, parent |-> index, cost |-> new_cost]))
            ELSE IF parents[at].cost > new_cost
            THEN astar_successors(nodes, goal, Tail(succ), index, cost,
                    to_see \cup {[estimated_cost |-> new_cost + h, cost |-> new_cost,
                                  index |-> at]},
                    [parents EXCEPT ![at] = [node |-> u, parent |-> index, cost |-> new_cost]])
            ELSE astar_successors(nodes, goal, Tail(succ), index, cost, to_see, parents)

RECURSIVE astar_loop(_, _, _, _, _)
astar_loop(nodes, goal, ord, to_see, parents) ==
    IF to_see = {} THEN None
    ELSE LET top == astar_pop(to_see, ord)
             rest == to_see \ {top}
             node == parents[top.index].node
         IN IF node = goal THEN Some(astar_reverse_path(parents, top.index))
            ELSE IF top.cost > parents[top.index].cost
            THEN astar_loop(nodes, goal, ord, rest, parents)
            ELSE LET r == astar_successors(nodes, goal,
                              InOrder(nodes[node].connections, ord.succ),
                              top.index, top.cost, rest, parents)
                 IN astar_loop(nodes, goal, ord, r.to_see, r.parents)

astar(nodes, start, goal, ord) ==
    astar_loop(nodes, goal, ord,
               {[estimated_cost |-> 0, cost |-> 0, index |-> 1]},
               <<[node |-> start, parent |-> 0, cost |-> 0]>>)

\* a router that answers with the first route the search meets, not the shortest
pathfind_first_found(nodes, from, to, ord) ==
    LET RECURSIVE dfs(_, _)
        dfs(path, seen) ==
            IF Last(path) = to THEN Some(path)
            ELSE LET next == InOrder(nodes[Last(path)].connections \ seen, ord.succ)
                     RECURSIVE try(_, _)
                     try(i, sn) ==
                         IF i > Len(next) THEN [found |-> None, seen |-> sn]
                         ELSE IF next[i] \in sn THEN try(i + 1, sn)
                         ELSE LET r == dfs(Append(path, next[i]), sn \cup {next[i]})
                              IN IF r # None THEN [found |-> r, seen |-> sn]
                                 ELSE try(i + 1, sn \cup {next[i]})
                 IN try(1, seen).found
    IN dfs(<<from>>, {from})

\* a search that answers with the nodes after `from` only
pathfind_without_from(nodes, from, to, ord) ==
    LET found == astar(nodes, from, to, ord)
    IN IF found = None THEN None ELSE Some(Tail(found[1]))

\* Tracks::pathfind: Some(the nodes from `from` to `to`, both included) or None
pathfind(nodes, from, to, ord) == astar(nodes, from, to, ord)

\* the orders the containers may take during one search
SearchOrders == [succ : IterOrders, heap : IterOrders]

\* every answer pathfind may give
pathfind_answers(nodes, from, to) == {pathfind(nodes, from, to, ord) : ord \in SearchOrders}


----------------------------------------------------------------------------
(* Factories *)

\* vec2::rotate by a number of quarter turns (the angles the model draws)
RECURSIVE rotate(_, _)
rotate(v, quarters) ==
    IF quarters % 4 = 0 THEN v ELSE rotate(<<-v[2], v[1]>>, (quarters % 4) - 1)

\* the position of port `index` of `n`: pos + (radius, 0) turned by angle + 360 index / n
io_pos(pos, radius, angle, index, n) ==
    LET r == rotate(<<radius, 0>>, angle + ExactDiv(4 * index, n))
    IN <<pos[1] + r[1], pos[2] + r[2]>>

\* the registry's id of a name: the existing entry, or a fresh id and a new entry
resource_lookup_always_new(g, name) ==
    LET n == IdGen_gen(g)
    IN [id |-> n.id, g |-> [n.g EXCEPT !.resources = g.resources @@ (n.id :> name)]]

resource_lookup(g, name) ==
    IF \E r \in DOMAIN g.resources : g.resources[r] = name
    THEN [id |-> CHOOSE r \in DOMAIN g.resources : g.resources[r] = name, g |-> g]
    ELSE LET n == IdGen_gen(g)
         IN [id |-> n.id, g |-> [n.g EXCEPT !.resources = g.resources @@ (n.id :> name)]]

\* the closure of spawn_factory's map, over the ports from `index` on:
\* a node for the port, then its resource; ios collects the FactoryIo built
RECURSIVE spawn_factory_io(_, _, _, _, _, _)
spawn_factory_io(g, factory_type, pos, angle, index, ios) ==
    IF index >= Len(factory_type.io) THEN [g |-> g, io |-> ios]
    ELSE LET io == factory_type.io[index + 1]
             node == TrackNode_new(g, io_pos(pos, factory_type.radius, angle, index,
                                             Len(factory_type.io)))
             res == resource_lookup(node.g, io.resource)
         IN spawn_factory_io(res.g, factory_type, pos, angle, index + 1,
                Append(ios, [ty |-> io.type, node |-> node.id, resource |-> res.id,
                             amount |-> IF io.speed # None THEN Some(0) ELSE None]))

\* Game::spawn_factory
spawn_factory(g, pos, angle, factory_type_index) ==
    LET factory_type == factory_types_get(factory_type_index)
    IN IF factory_type = None THEN g
       ELSE LET id == IdGen_gen(g)
                built == spawn_factory_io(id.g, factory_type[1], pos, angle, 0, <<>>)
            IN [built.g EXCEPT !.factories =
                    built.g.factories @@ (id.id :> [ty |-> factory_type_index, io |-> built.io])]

\* Game::spawn_train, with the resource and the node its two random draws gave
spawn_train(g, resource, node) ==
    LET id == IdGen_gen(g)
    IN [id.g EXCEPT !.trains = g.trains @@ (id.id :>
            [resource |-> resource, amount |-> 0, length |-> train_length,
             head |-> [from |-> node, to |-> node, ratio |-> Frac(0, 1)],
             tail_nodes |-> <<>>, path_from_target |-> None, target |-> None])]

\* handle_event, the release that ends a segment of track: the start is a new
\* node (Drawing::FromScratch) or an existing one (Drawing::FromNode), the end
\* a new node (Hover::Nothing) or an existing one (Hover::TrackNode)
draw_track(g, start, end) ==
    LET s == IF start.new THEN TrackNode_new(g, start.pos) ELSE [id |-> start.id, g |-> g]
        e == IF end.new THEN TrackNode_new(s.g, end.pos) ELSE [id |-> end.id, g |-> s.g]
    IN [e.g EXCEPT !.tracks = add_connection(e.g.tracks, s.id, e.id)]


----------------------------------------------------------------------------
(* update, first loop: the flow of every factory *)

\* max_input_dt: delta_time, lowered to amount / speed by every rated Input port
RECURSIVE max_input_dt(_, _, _, _)
max_input_dt(io, io_config, i, limit) ==
    IF i > Len(io) \/ i > Len(io_config) THEN limit
    ELSE IF io[i].ty = "Input" /\ io[i].amount # None /\ io_config[i].speed # None
    THEN LET quotient == Frac(io[i].amount[1], io_config[i].speed[1])
         IN max_input_dt(io, io_config, i + 1, IF FracLt(quotient, limit) THEN quotient ELSE limit)
    ELSE max_input_dt(io, io_config, i + 1, limit)

\* a flow that takes the whole delta_time from every port, starved or not
factory_flow_unlimited(factory, dt) ==
    LET io_config == factory_types[factory.ty + 1].io
    IN [factory EXCEPT !.io = [i \in DOMAIN factory.io |->
            IF factory.io[i].amount = None \/ io_config[i].speed = None THEN factory.io[i]
            ELSE IF factory.io[i].ty = "Input"
            THEN [factory.io[i] EXCEPT !.amount = Some(@[1] - io_config[i].speed[1] * dt)]
            ELSE [factory.io[i] EXCEPT !.amount = Some(@[1] + io_config[i].speed[1] * dt)]]]

\* the body of the loop over factories
factory_flow(factory, dt) ==
    LET io_config == factory_types[factory.ty + 1].io
        limit == max_input_dt(factory.io, io_config, 1, Frac(dt, 1))
    IN [factory EXCEPT !.io = [i \in DOMAIN factory.io |->
            IF factory.io[i].amount = None \/ io_config[i].speed = None THEN factory.io[i]
            ELSE IF factory.io[i].ty = "Input"
            THEN [factory.io[i] EXCEPT
                    !.amount = Some(Max(@[1] - FracTimes(io_config[i].speed[1], limit), 0))]
            ELSE [factory.io[i] EXCEPT
                    !.amount = Some(@[1] + FracTimes(io_config[i].speed[1], limit))]]]

update_factories(g, dt) ==
    [g EXCEPT !.factories = [f \in DOMAIN g.factories |-> factory_flow(g.factories[f], dt)]]

----------------------------------------------------------------------------
(* update, second loop: cargo transfer and target selection of one train *)

\* a load that takes what the load speed allows, whatever the port holds
load_amount_ignoring_port(train_amount, io_amount, dt) ==
    Min(capacity - train_amount, train_load_speed * dt)

\* load_amount: the room left, the load speed, and a rated port's buffer
load_amount(train_amount, io_amount, dt) ==
    LET by_speed == Min(capacity - train_amount, train_load_speed * dt)
    IN IF io_amount # None THEN Min(by_speed, io_amount[1]) ELSE by_speed

\* an unload that always takes the full load speed
unload_amount_unclamped(train_amount, dt) == train_load_speed * dt

\* unload_amount: the cargo, or what the load speed allows
unload_amount(train_amount, dt) == Min(train_amount, train_load_speed * dt)

\* a transfer after which the train never waits: the done checks left out
train_transfer_always_go(g, t, dt) ==
    LET train == g.trains[t]
    IN IF train.target = None THEN [g |-> g, go |-> TRUE]
       ELSE LET f == train.target[1].factory
                i == train.target[1].io + 1
                io == g.factories[f].io[i]
                moved == IF io.ty = "Input" THEN unload_amount(train.amount, dt)
                         ELSE 0 - load_amount(train.amount, io.amount, dt)
            IN [g |-> [g EXCEPT !.trains[t].amount = @ - moved,
                                !.factories[f].io[i].amount =
                                    IF @ # None THEN Some(@[1] + moved) ELSE @],
                go |-> TRUE]

\* a transfer that opens a buffer at a port that has none when a train unloads
train_transfer_buffering(g, t, dt) ==
    LET train == g.trains[t]
    IN IF train.target = None THEN [g |-> g, go |-> TRUE]
       ELSE LET f == train.target[1].factory
                i == train.target[1].io + 1
                io == g.factories[f].io[i]
            IN IF io.ty = "Input"
               THEN LET unload == unload_amount(train.amount, dt)
                        amount == train.amount - unload
                    IN [g |-> [g EXCEPT !.trains[t].amount = amount,
                                        !.factories[f].io[i].amount =
                                            IF @ # None THEN Some(@[1] + unload)
                                            ELSE Some(unload)],
                        go |-> approx_eq(amount, 0)]
               ELSE LET load == load_amount(train.amount, io.amount, dt)
                        amount == train.amount + load
                    IN [g |-> [g EXCEPT !.trains[t].amount = amount,
                                        !.factories[f].io[i].amount =
                                            IF @ # None THEN Some(@[1] - load) ELSE @],
                        go |-> approx_eq(capacity, amount)]

\* a load that takes the whole of what the load speed allows out of the
\* port, whatever the train could take in
train_transfer_debiting_rate(g, t, dt) ==
    LET train == g.trains[t]
    IN IF train.target = None THEN [g |-> g, go |-> TRUE]
       ELSE LET f == train.target[1].factory
                i == train.target[1].io + 1
                io == g.factories[f].io[i]
            IN IF io.ty = "Input"
               THEN LET unload == unload_amount(train.amount, dt)
                        amount == train.amount - unload
                    IN [g |-> [g EXCEPT !.trains[t].amount = amount,
                                        !.factories[f].io[i].amount =
                                            IF @ # None THEN Some(@[1] + unload) ELSE @],
                        go |-> approx_eq(amount, 0)]
               ELSE LET load == load_amount(train.amount, io.amount, dt)
                        amount == train.amount + load
                    IN [g |-> [g EXCEPT !.trains[t].amount = amount,
                                        !.factories[f].io[i].amount =
                                            IF @ # None THEN Some(@[1] - train_load_speed * dt)
                                            ELSE @],
                        go |-> approx_eq(capacity, amount)]

\* the match on the target's type: the transfer, and whether the train is done (go)
train_transfer(g, t, dt) ==
    LET train == g.trains[t]
    IN IF train.target = None THEN [g |-> g, go |-> TRUE]
       ELSE LET f == train.target[1].factory
                i == train.target[1].io + 1
                io == g.factories[f].io[i]
            IN IF io.ty = "Input"
               THEN LET unload == unload_amount(train.amount, dt)
                        amount == train.amount - unload
                    IN [g |-> [g EXCEPT !.trains[t].amount = amount,
                                        !.factories[f].io[i].amount =
                                            IF @ # None THEN Some(@[1] + unload) ELSE @],
                        go |-> approx_eq(amount, 0)]
               ELSE LET load == load_amount(train.amount, io.amount, dt)
                        amount == train.amount + load
                    IN [g |-> [g EXCEPT !.trains[t].amount = amount,
                                        !.factories[f].io[i].amount =
                                            IF @ # None THEN Some(@[1] - load) ELSE @],
                        go |-> approx_eq(capacity, amount)]

\* a direction that is already Input with the train exactly half full
look_for_from_half(amount) == IF 2 * amount >= capacity THEN "Input" ELSE "Output"

\* the direction a train looks for
look_for(amount) == IF 2 * amount > capacity THEN "Input" ELSE "Output"

\* a filter that keeps the ports of the direction, whatever their resource
target_candidates_any_resource(g, t) ==
    {c \in UNION {{[factory |-> f, io |-> i - 1] : i \in DOMAIN g.factories[f].io} :
                  f \in DOMAIN g.factories} :
        g.factories[c.factory].io[c.io + 1].ty = look_for(g.trains[t].amount)}

\* the ports the filter keeps: those of the direction and of the train's resource
target_candidates(g, t) ==
    {c \in UNION {{[factory |-> f, io |-> i - 1] : i \in DOMAIN g.factories[f].io} :
                  f \in DOMAIN g.factories} :
        LET io == g.factories[c.factory].io[c.io + 1]
        IN io.ty = look_for(g.trains[t].amount) /\ io.resource = g.trains[t].resource}

\* a commit that records the target whether or not there is a path to it
train_commit_unconditional(g, t, target, path) ==
    [g EXCEPT !.trains[t].path_from_target = path, !.trains[t].target = Some(target)]

\* a train bound for `target` along `path` (None: the target is not committed)
train_commit(g, t, target, path) ==
    IF path # None
    THEN [g EXCEPT !.trains[t].path_from_target = path, !.trains[t].target = Some(target)]
    ELSE [g EXCEPT !.trains[t].path_from_target = None]

\* a selection that asks the router for the route from the train to the port,
\* not from the port to the train
train_go_path_to_target(g, t) ==
    LET candidates == target_candidates(g, t)
    IN IF candidates = {} THEN {g}
       ELSE UNION {{train_commit(g, t, c, path) :
                        path \in pathfind_answers(g.tracks,
                                    g.trains[t].head.to,
                                    g.factories[c.factory].io[c.io + 1].node)} :
                   c \in candidates}

\* the games the selection may leave: one per port the random draw may give
\* and per answer of the router
train_go(g, t) ==
    LET candidates == target_candidates(g, t)
    IN IF candidates = {} THEN {g}
       ELSE UNION {{train_commit(g, t, c, path) :
                        path \in pathfind_answers(g.tracks,
                                    g.factories[c.factory].io[c.io + 1].node,
                                    g.trains[t].head.to)} :
                   c \in candidates}

\* a second loop that does not skip the trains that have a route
update_train_without_skip(g, t, dt) ==
    LET r == train_transfer(g, t, dt)
    IN IF r.go THEN train_go(r.g, t) ELSE {r.g}

\* the body of the second loop for train t
update_train(g, t, dt) ==
    IF g.trains[t].path_from_target # None THEN {g}
    ELSE LET r == train_transfer(g, t, dt)
         IN IF r.go THEN train_go(r.g, t) ELSE {r.g}

\* a second loop that takes the trains in any order, whatever order it is given
RECURSIVE update_trains_in(_, _, _)
update_trains_in(g, order, dt) ==
    IF order = <<>> THEN {g}
    ELSE UNION {update_trains_in(g2, Tail(order), dt) : g2 \in update_train(g, Head(order), dt)}

update_trains_any_order(g, order, dt) ==
    UNION {update_trains_in(g, other, dt) : other \in Perms(DOMAIN g.trains)}

\* the second loop, over the trains in the order the collection yields them
RECURSIVE update_trains(_, _, _)
update_trains(g, order, dt) ==
    IF order = <<>> THEN {g}
    ELSE UNION {update_trains(g2, Tail(order), dt) : g2 \in update_train(g, Head(order), dt)}

----------------------------------------------------------------------------
(* update, third loop: kinematic advance of one train *)

\* while path.last() == Some(&train.head.to) { path.pop(); }
RECURSIVE pop_while_last(_, _)
pop_while_last(path, node) ==
    IF path # <<>> /\ Last(path) = node THEN pop_while_last(Front(path), node) ELSE path

\* a truncation that drops the node that exceeds the length as well
truncate_tail_exclusive(nodes, tail_nodes, i, covered_length, length) ==
    LET RECURSIVE walk(_, _)
        walk(k, covered) ==
            IF k >= Len(tail_nodes) THEN tail_nodes
            ELSE IF covered > length THEN SubSeq(tail_nodes, 1, k - 1)
            ELSE walk(k + 1, covered + segment_length(nodes, tail_nodes[k], tail_nodes[k + 1]))
    IN walk(i, covered_length)

\* the loop over tuple_windows from window i on (from 1): truncate(i) at the
\* first window found with covered_length > length, keeping its first node
RECURSIVE truncate_tail(_, _, _, _, _)
truncate_tail(nodes, tail_nodes, i, covered_length, length) ==
    IF i >= Len(tail_nodes) THEN tail_nodes
    ELSE IF covered_length > length THEN SubSeq(tail_nodes, 1, i)
    ELSE truncate_tail(nodes, tail_nodes, i + 1,
            covered_length + segment_length(nodes, tail_nodes[i], tail_nodes[i + 1]), length)

\* a third loop that pushes the near node of the old segment, not the far one
advance_train_pushing_from(nodes, train, dt) ==
    IF train.path_from_target = None THEN train
    ELSE LET path == pop_while_last(train.path_from_target[1], train.head.to)
             current_segment_length == segment_length(nodes, train.head.from, train.head.to)
             current_segment_progress ==
                 FracTimes(current_segment_length, train.head.ratio) + train_speed * dt
         IN IF current_segment_progress < current_segment_length
            THEN [train EXCEPT
                    !.path_from_target = Some(path),
                    !.head.ratio = Frac(current_segment_progress, current_segment_length)]
            ELSE IF path # <<>>
            THEN LET next_node == Last(path)
                     next_segment_length == segment_length(nodes, train.head.to, next_node)
                     next_segment_progress == current_segment_progress - current_segment_length
                 IN [train EXCEPT
                        !.path_from_target = Some(Front(path)),
                        !.head = [from |-> train.head.to, to |-> next_node,
                                  ratio |-> Frac(next_segment_progress, next_segment_length)],
                        !.tail_nodes = truncate_tail(nodes,
                                           <<train.head.from>> \o train.tail_nodes,
                                           1, next_segment_progress, train.length)]
            ELSE [train EXCEPT !.path_from_target = None, !.head.ratio = Frac(1, 1)]

\* the body of the third loop
advance_train(nodes, train, dt) ==
    IF train.path_from_target = None THEN train
    ELSE LET path == pop_while_last(train.path_from_target[1], train.head.to)
             current_segment_length == segment_length(nodes, train.head.from, train.head.to)
             current_segment_progress ==
                 FracTimes(current_segment_length, train.head.ratio) + train_speed * dt
         IN IF current_segment_progress < current_segment_length
            THEN [train EXCEPT
                    !.path_from_target = Some(path),
                    !.head.ratio = Frac(current_segment_progress, current_segment_length)]
            ELSE IF path # <<>>
            THEN LET next_node == Last(path)
                     next_segment_length == segment_length(nodes, train.head.to, next_node)
                     next_segment_progress == current_segment_progress - current_segment_length
                 IN [train EXCEPT
                        !.path_from_target = Some(Front(path)),
                        !.head = [from |-> train.head.to, to |-> next_node,
                                  ratio |-> Frac(next_segment_progress, next_segment_length)],
                        !.tail_nodes = truncate_tail(nodes, <<train.head.to>> \o train.tail_nodes,
                                                     1, next_segment_progress, train.length)]
            ELSE [train EXCEPT !.path_from_target = None, !.head.ratio = Frac(1, 1)]

advance_trains(g, dt) ==
    [g EXCEPT !.trains = [t \in DOMAIN g.trains |-> advance_train(g.tracks, g.trains[t], dt)]]


----------------------------------------------------------------------------
(* The inputs the model draws *)

\* node positions: corners and centre of a 6 x 8 rectangle, whose pairwise
\* distances are 5, 6, 8 and 10; a game of at most n nodes uses the first n
PositionList == << <<0, 0>>, <<6, 0>>, <<6, 8>>, <<0, 8>>, <<3, 4>> >>
PositionsOf(n) == {PositionList[i] : i \in 1..Min(n, Len(PositionList))}
Positions == PositionsOf(MaxNodes)
\* where a factory may be put down, and how it may be turned (quarter turns)
SpawnCentres == {<<3, 0>>, <<6, 4>>, <<3, 8>>}
Angles == 0..3
\* the catalog indices the number keys give: Digit0 .. Digit4
FactoryKeys == 0..4
\* the delta_time of a frame
Dts == {0, 1, 2}

UsedPositions(g) == {g.tracks[n].pos : n \in DOMAIN g.tracks}

\* the positions spawn_factory gives its ports
PortPositions(pos, angle, index) ==
    LET ft == factory_types_get(index)
    IN IF ft = None THEN {}
       ELSE {io_pos(pos, ft[1].radius, angle, i - 1, Len(ft[1].io)) : i \in DOMAIN ft[1].io}

\* the ends a segment of track may be drawn between: any node, any free position
TrackEnds(g) ==
    {[new |-> FALSE, id |-> n, pos |-> g.tracks[n].pos] : n \in DOMAIN g.tracks}
    \cup {[new |-> TRUE, id |-> 0, pos |-> p] : p \in Positions \ UsedPositions(g)}

----------------------------------------------------------------------------
(* The state machine *)

SetGame(g) ==
    /\ id_gen' = g.id_gen
    /\ tracks' = g.tracks
    /\ resources' = g.resources
    /\ factories' = g.factories
    /\ trains' = g.trains

StartsAs(g) ==
    /\ id_gen = g.id_gen
    /\ tracks = g.tracks
    /\ resources = g.resources
    /\ factories = g.factories
    /\ trains = g.trains
    /\ ticks = 0
    /\ delta_time = 0
    /\ odo = [t \in DOMAIN g.trains |-> [goal |-> -1, total |-> 0, run |-> 0, failed |-> 0]]
    /\ route = None

\* Game::new
Init == StartsAs(NewGame)

\* a number key: spawn_factory at the cursor, turned at random
SpawnFactory ==
    \E pos \in SpawnCentres, angle \in Angles, index \in FactoryKeys :
        LET ports == PortPositions(pos, angle, index)
            after == spawn_factory(Game, pos, angle, index)
        IN /\ ports \subseteq Positions \ UsedPositions(Game)
           /\ after.id_gen <= MaxIds
           /\ SetGame(after)
           /\ UNCHANGED <<ticks, delta_time, odo, route>>

\* the space key: spawn_train, a no-op while there is no resource or no node
SpawnTrain ==
    /\ id_gen < MaxIds
    /\ IF DOMAIN resources = {} \/ DOMAIN tracks = {}
       THEN UNCHANGED <<id_gen, tracks, resources, factories, trains, odo>>
       ELSE \E resource \in DOMAIN resources, node \in DOMAIN tracks :
                /\ SetGame(spawn_train(Game, resource, node))
                /\ odo' = odo @@ (id_gen :> [goal |-> -1, total |-> 0, run |-> 0, failed |-> 0])
    /\ UNCHANGED <<ticks, delta_time, route>>

\* a release of the left button while a segment of track is being drawn
DrawTrack ==
    \E start \in TrackEnds(Game), end \in TrackEnds(Game) :
        /\ start.pos # end.pos
        /\ draw_track(Game, start, end).id_gen <= MaxIds
        /\ SetGame(draw_track(Game, start, end))
        /\ UNCHANGED <<ticks, delta_time, odo, route>>

\* the length of a path: the sum of its segments
RECURSIVE path_length(_, _)
path_length(nodes, path) ==
    IF Len(path) < 2 THEN 0
    ELSE segment_length(nodes, path[1], path[2]) + path_length(nodes, Tail(path))

\* whether train t, left without a route by the second loop, had go set in
\* it: it has no target, or the cargo the transfer left passes the done check
went(mid, t) ==
    LET train == mid.trains[t]
    IN \/ train.target = None
       \/ LET io == mid.factories[train.target[1].factory].io[train.target[1].io + 1]
          IN IF io.ty = "Input" THEN approx_eq(train.amount, 0)
             ELSE approx_eq(capacity, train.amount)

\* history of the routes: a train that commits a route in this call starts a
\* new record (where the route ends, how long it is), every train that
\* enters the third loop with a route adds train_speed * delta_time to its
\* run, and a train that went for a target and committed none counts it
odo_after(before, mid, dt) ==
    [t \in DOMAIN mid.trains |->
        IF mid.trains[t].path_from_target = None
        THEN IF went(mid, t) THEN [odo[t] EXCEPT !.failed = @ + 1] ELSE odo[t]
        ELSE IF before.trains[t].path_from_target = None
        THEN [goal |-> mid.trains[t].path_from_target[1][1],
              total |-> path_length(mid.tracks, mid.trains[t].path_from_target[1]),
              run |-> train_speed * dt,
              failed |-> odo[t].failed]
        ELSE [odo[t] EXCEPT !.run = @ + train_speed * dt]]

\* an update that runs the loop over the factories last, not first
Update_flow_last(limit) ==
    /\ ticks < limit
    /\ \E dt \in Dts, order \in Perms(DOMAIN trains) :
        \E mid \in update_trains(Game, order, dt) :
            /\ SetGame(update_factories(advance_trains(mid, dt), dt))
            /\ odo' = odo_after(Game, mid, dt)
            /\ delta_time' = dt
    /\ ticks' = ticks + 1
    /\ UNCHANGED route

\* geng::State::update(delta_time), at most `limit` times
Update(limit) ==
    /\ ticks < limit
    /\ \E dt \in Dts, order \in Perms(DOMAIN trains) :
        \E mid \in update_trains(update_factories(Game, dt), order, dt) :
            /\ SetGame(advance_trains(mid, dt))
            /\ odo' = odo_after(Game, mid, dt)
            /\ delta_time' = dt
    /\ ticks' = ticks + 1
    /\ UNCHANGED route

Tick == Update(MaxTicks)

Next == SpawnFactory \/ SpawnTrain \/ DrawTrack \/ Tick

Spec == Init /\ [][Next]_vars

----------------------------------------------------------------------------
(* The router alone: track is drawn, and the router is asked for routes.
   New nodes take the positions of PositionList in order; the track is
   drawn first and asked afterwards, so an answer is about the track it
   stands next to in the state. *)

\* the position a new node takes when n nodes exist
NextPosition(n) == PositionList[n + 1]

DrawRoute ==
    \E start_new \in BOOLEAN, end_new \in BOOLEAN :
    \E a \in IF start_new THEN {0} ELSE DOMAIN tracks, b \in IF end_new THEN {0} ELSE DOMAIN tracks :
        LET n == Cardinality(DOMAIN tracks)
            created == (IF start_new THEN 1 ELSE 0) + (IF end_new THEN 1 ELSE 0)
            start == IF start_new THEN [new |-> TRUE, id |-> 0, pos |-> NextPosition(n)]
                     ELSE [new |-> FALSE, id |-> a, pos |-> tracks[a].pos]
            end == IF end_new
                   THEN [new |-> TRUE, id |-> 0,
                         pos |-> NextPosition(IF start_new THEN n + 1 ELSE n)]
                   ELSE [new |-> FALSE, id |-> b, pos |-> tracks[b].pos]
        IN /\ route = None
           /\ n + created <= Min(MaxRouteNodes, Len(PositionList))
           /\ start.pos # end.pos
           /\ SetGame(draw_track(Game, start, end))
           /\ route' = None
           /\ UNCHANGED <<ticks, delta_time, odo>>

\* a call of Tracks::pathfind(from, to); the answer is kept in route, one
\* answer for each state of the track
FindPath ==
    \E from \in DOMAIN tracks, to \in DOMAIN tracks, ord \in SearchOrders :
        /\ route = None
        /\ route' = Some([from |-> from, to |-> to, path |-> pathfind(tracks, from, to, ord)])
        /\ UNCHANGED <<id_gen, tracks, resources, factories, trains, ticks, delta_time, odo>>

NextRoute == DrawRoute \/ FindPath

SpecRoute == Init /\ [][NextRoute]_vars

----------------------------------------------------------------------------
(* Hauling: games built by the operations above, then run by update alone *)

OldNode(g, pos) ==
    [new |-> FALSE, id |-> CHOOSE n \in DOMAIN g.tracks : g.tracks[n].pos = pos, pos |-> pos]
NewNode(pos) == [new |-> TRUE, id |-> 0, pos |-> pos]
NodeAt(g, pos) == OldNode(g, pos).id
ResourceNamed(g, name) == CHOOSE r \in DOMAIN g.resources : g.resources[r] = name

\* a mine at (0,0), a smelter taking ore at (6,8) and giving metal at (0,8), a
\* depot at (6,0); track (0,0)-(6,0), (6,0)-(6,8), (0,0)-(0,8)
HaulTracks ==
    LET g1 == spawn_factory(NewGame, <<3, 0>>, 2, 0)
        g2 == spawn_factory(g1, <<3, 8>>, 0, 1)
        g3 == spawn_factory(g2, <<6, 4>>, 3, 2)
        g4 == draw_track(g3, OldNode(g3, <<0, 0>>), OldNode(g3, <<6, 0>>))
        g5 == draw_track(g4, OldNode(g4, <<6, 0>>), OldNode(g4, <<6, 8>>))
    IN draw_track(g5, OldNode(g5, <<0, 0>>), OldNode(g5, <<0, 8>>))

\* the trains of a hauling game: the draws of each spawn_train
HaulTrains ==
    { << [resource |-> "ore", pos |-> <<0, 0>>], [resource |-> "metal", pos |-> <<0, 8>>] >>,
      << [resource |-> "ore", pos |-> <<0, 0>>], [resource |-> "ore", pos |-> <<6, 0>>] >> }

RECURSIVE spawn_trains(_, _)
spawn_trains(g, draws) ==
    IF draws = <<>> THEN g
    ELSE spawn_trains(spawn_train(g, ResourceNamed(g, Head(draws).resource),
                                  NodeAt(g, Head(draws).pos)),
                      Tail(draws))

\* a line of track (0,0)-(10,0)-(18,0)-(25,0)-(35,0) to a mine at its end,
\* and one train at its start
LineGame ==
    LET g1 == spawn_factory(NewGame, <<38, 0>>, 2, 0)
        g2 == draw_track(g1, NewNode(<<0, 0>>), NewNode(<<10, 0>>))
        g3 == draw_track(g2, OldNode(g2, <<10, 0>>), NewNode(<<18, 0>>))
        g4 == draw_track(g3, OldNode(g3, <<18, 0>>), NewNode(<<25, 0>>))
        g5 == draw_track(g4, OldNode(g4, <<25, 0>>), OldNode(g4, <<35, 0>>))
    IN spawn_train(g5, ResourceNamed(g5, "ore"), NodeAt(g5, <<0, 0>>))

HaulGames == {spawn_trains(HaulTracks, draws) : draws \in HaulTrains} \cup {LineGame}

InitHaul == \E g \in HaulGames : StartsAs(g)

NextHaul == Update(MaxHaulTicks)

SpecHaul == InitHaul /\ [][NextHaul]_vars

----------------------------------------------------------------------------
(* Delivery: ore from the mine to the smelter, metal from the smelter to the
   depot, whose port has no rate and so no buffer *)

\* a mine at (0,0), a smelter taking ore at (6,8) and giving metal at (0,8), a
\* depot at (6,0); track (0,0)-(6,8) and (0,8)-(6,0); a train for ore at the
\* mine and a train for metal at the smelter
DepotGame ==
    LET g1 == spawn_factory(NewGame, <<3, 0>>, 2, 0)
        g2 == spawn_factory(g1, <<3, 8>>, 0, 1)
        g3 == spawn_factory(g2, <<6, 4>>, 3, 2)
        g4 == draw_track(g3, OldNode(g3, <<0, 0>>), OldNode(g3, <<6, 8>>))
        g5 == draw_track(g4, OldNode(g4, <<0, 8>>), OldNode(g4, <<6, 0>>))
    IN spawn_trains(g5, << [resource |-> "ore", pos |-> <<0, 0>>],
                           [resource |-> "metal", pos |-> <<0, 8>>] >>)

InitDepot == StartsAs(DepotGame)

NextDepot == Update(MaxDepotTicks)

SpecDepot == InitDepot /\ [][NextDepot]_vars

----------------------------------------------------------------------------
(* Properties.  What they share: the port a train is at, the trains that
   transfer cargo in a call of update, and the step that is such a call. *)

IsUpdate == ticks' = ticks + 1

TargetIo(t) == factories[trains[t].target[1].factory].io[trains[t].target[1].io + 1]

\* a train transfers cargo in a call iff it enters the call with a target
\* and without a route
AtPort(t) == trains[t].target # None /\ trains[t].path_from_target = None

TrainsAt(f, i) ==
    {t \in DOMAIN trains : AtPort(t) /\ trains[t].target[1] = [factory |-> f, io |-> i - 1]}

RatedPorts(ty) ==
    {p \in (DOMAIN factories) \X (1..2) :
        /\ p[2] \in DOMAIN factories[p[1]].io
        /\ factories[p[1]].io[p[2]].ty = ty
        /\ factories[p[1]].io[p[2]].amount # None}

RECURSIVE Sum(_, _)
Sum(f, S) == IF S = {} THEN 0 ELSE LET x == CHOOSE y \in S : TRUE IN f[x] + Sum(f, S \ {x})

\* C1: adjacency is mutual: node b is in node a's connections iff node a is
\* in node b's, after any sequence of track drawing, spawns and ticks
C1_MutualAdjacency ==
    \A a, b \in DOMAIN tracks : b \in tracks[a].connections <=> a \in tracks[b].connections

\* a drawn segment ends at the port node of a factory
C1_Witness ==
    \E f \in DOMAIN factories, a \in DOMAIN tracks :
        /\ factories[f].io[1].node \in tracks[a].connections
        /\ a \in tracks[factories[f].io[1].node].connections
        /\ a # factories[f].io[1].node

\* C2: the cargo of every train stays within 0 and capacity, whatever the
\* ticks, also when several trains load or unload at one port in one tick
C2_CargoWithinCapacity ==
    \A t \in DOMAIN trains : 0 <= trains[t].amount /\ trains[t].amount <= capacity

\* two trains hold cargo loaded at the same port, which they have emptied
C2_Witness ==
    \E t, u \in DOMAIN trains :
        /\ t # u /\ AtPort(t) /\ AtPort(u)
        /\ trains[t].target = trains[u].target
        /\ TargetIo(t).ty = "Output" /\ TargetIo(t).amount = Some(0)
        /\ trains[t].amount > 0 /\ trains[u].amount > 0

\* C3: the buffer of a rated Input port is never negative
C3_InputBufferNonNegative ==
    \A p \in RatedPorts("Input") : factories[p[1]].io[p[2]].amount[1] >= 0

\* a smelter that has been fed and has consumed all of it
C3_Witness ==
    \E f \in DOMAIN factories :
        /\ factories[f].ty = 1
        /\ factories[f].io[1].amount = Some(0)
        /\ factories[f].io[2].amount[1] > 0

\* what the flow of a call with delta time dt leaves in port i of factory f,
\* said without the loop: limitDt is the least of dt and amount / rate over
\* the rated Input ports, Inputs lose rate * limitDt (not below 0) and
\* Outputs gain rate * limitDt
LimitDt(f, dt) ==
    LET io == factories[f].io
        rates == factory_types[factories[f].ty + 1].io
        quotients == {Frac(io[j].amount[1], rates[j].speed[1]) :
                        j \in {k \in DOMAIN io : io[k].ty = "Input" /\ io[k].amount # None}}
        all == {Frac(dt, 1)} \cup quotients
    IN CHOOSE c \in all : \A d \in all : ~FracLt(d, c)

Flowed(f, i, dt) ==
    LET amount == factories[f].io[i].amount[1]
        moved == FracTimes(factory_types[factories[f].ty + 1].io[i].speed[1], LimitDt(f, dt))
    IN IF factories[f].io[i].ty = "Input" THEN Max(amount - moved, 0) ELSE amount + moved

\* the trains of `order` take their loads one after the other from `buffer`
\* and leave `left` in it
RECURSIVE LoadedInOrder(_, _, _)
LoadedInOrder(order, buffer, left) ==
    IF order = <<>> THEN buffer = left
    ELSE LET t == Head(order)
             gain == trains'[t].amount - trains[t].amount
         IN /\ gain = Min(Min(capacity - trains[t].amount, train_load_speed * delta_time'),
                          buffer)
            /\ LoadedInOrder(Tail(order), buffer - gain, left)

\* C4: a train loading from a rated Output port gains
\* min(capacity - cargo, loadSpeed * dt, buffer), the buffer loses the same
\* and is never negative, also when several trains load from it in one tick
C4_LoadBoundedByBuffer ==
    [][IsUpdate =>
        \A p \in RatedPorts("Output") :
            /\ factories'[p[1]].io[p[2]].amount[1] >= 0
            /\ \E order \in Perms(TrainsAt(p[1], p[2])) :
                    LoadedInOrder(order, Flowed(p[1], p[2], delta_time'),
                                  factories'[p[1]].io[p[2]].amount[1])]_vars

\* capacity 10, cargo 0, buffer 3, load speed 5, dt 1: cargo 3 and buffer 0.
\* (The first call, of dt 0, gave the train its target; the second, of dt 1,
\* put 3 in the buffer of the mine and loaded them.)
C4_Witness ==
    /\ ticks = 2 /\ delta_time = 1
    /\ \E t \in DOMAIN trains :
        /\ AtPort(t) /\ TargetIo(t).ty = "Output"
        /\ trains[t].amount = 3 /\ TargetIo(t).amount = Some(0)
        /\ \A u \in DOMAIN trains : u # t => trains[u].amount = 0

Keeps(t) ==
    trains'[t].target = trains[t].target /\ trains'[t].path_from_target = None

\* C5 as the specification words it: a train at its target is done only when
\* its cargo is exactly 0 after unloading or exactly capacity after loading;
\* with any other cargo it keeps its target
C5_DoneOnlyWhenExact ==
    [][IsUpdate =>
        \A t \in DOMAIN trains :
            AtPort(t) /\ ~(IF TargetIo(t).ty = "Input" THEN trains'[t].amount = 0
                           ELSE trains'[t].amount = capacity)
            => Keeps(t)]_vars

\* C5: a train at its target is done only when its cargo is within the
\* tolerance of approx_eq of 0 after unloading, or of capacity after loading;
\* with a cargo farther away (3 of 10, say) it keeps its target
C5_DoneOnlyWhenClose ==
    [][IsUpdate =>
        \A t \in DOMAIN trains :
            AtPort(t) /\ ~(IF TargetIo(t).ty = "Input" THEN Abs(trains'[t].amount) < DEFAULT_EPS
                           ELSE Abs(capacity - trains'[t].amount) < DEFAULT_EPS)
            => Keeps(t)]_vars

\* a train that has unloaded half of a full cargo waits at the Input port
C5_Witness ==
    \E t \in DOMAIN trains :
        AtPort(t) /\ TargetIo(t).ty = "Input" /\ trains[t].amount = 5 /\ delta_time = 1

\* C6: the flow of a factory moves rate * limitDt through every rated port,
\* limitDt as above, and so leaves a starved factory alone; what a port holds
\* after a call is that, and what the trains at it unloaded or loaded
C6_FlowLimitedByInputs ==
    [][IsUpdate =>
        \A p \in RatedPorts("Input") \cup RatedPorts("Output") :
            LET moved == Sum([t \in DOMAIN trains |-> trains[t].amount - trains'[t].amount],
                             TrainsAt(p[1], p[2]))
                starved == \E q \in RatedPorts("Input") :
                               q[1] = p[1] /\ factories[q[1]].io[q[2]].amount = Some(0)
            IN /\ factories'[p[1]].io[p[2]].amount[1] = Flowed(p[1], p[2], delta_time') + moved
               /\ starved => factories'[p[1]].io[p[2]].amount[1] =
                                factories[p[1]].io[p[2]].amount[1] + moved]_vars

\* no train carries metal, and the smelter has made an odd amount of it: one
\* of its flows was cut to half a second by the ore it had left
C6_Witness ==
    /\ \A t \in DOMAIN trains : resources[trains[t].resource] # "metal"
    /\ \E f \in DOMAIN factories :
        factories[f].ty = 1 /\ factories[f].io[2].amount[1] % 2 = 1

\* the least length of a walk from `from`, of at most `rounds` segments more
\* than dist accounts for; -1 where there is none
RECURSIVE Relax(_, _, _)
Relax(nodes, dist, rounds) ==
    IF rounds = 0 THEN dist
    ELSE Relax(nodes,
               [n \in DOMAIN nodes |->
                   LET ways == {dist[m] + vec_len(nodes[m].pos, nodes[n].pos) :
                                   m \in {k \in nodes[n].connections : dist[k] # -1}}
                               \cup (IF dist[n] # -1 THEN {dist[n]} ELSE {})
                   IN IF ways = {} THEN -1 ELSE CHOOSE d \in ways : \A e \in ways : d <= e],
               rounds - 1)

Distance(nodes, from, to) ==
    Relax(nodes, [n \in DOMAIN nodes |-> IF n = from THEN 0 ELSE -1],
          Cardinality(DOMAIN nodes))[to]

Adjacent(p) == \A i \in 1..(Len(p) - 1) : p[i + 1] \in tracks[p[i]].connections

\* C7: findPath answers with a route of the least total length there is from
\* `from` to `to`, and with none iff `to` cannot be reached from `from`
C7_ShortestPath ==
    route # None =>
        LET r == route[1]
            least == Distance(tracks, r.from, r.to)
        IN /\ r.path = None <=> least = -1
           /\ r.path # None => path_length(tracks, r.path[1]) = least

\* an answer of two segments or more, where the first step could have been
\* another one, by which the way to `to` is longer
C7_Witness ==
    /\ route # None /\ route[1].path # None /\ Len(route[1].path[1]) >= 3
    /\ \E m \in tracks[route[1].from].connections :
        /\ m \notin {route[1].path[1][i] : i \in 1..Len(route[1].path[1])}
        /\ Distance(tracks, m, route[1].to) # -1
        /\ vec_len(tracks[route[1].from].pos, tracks[m].pos)
             + Distance(tracks, m, route[1].to) > path_length(tracks, route[1].path[1])

\* C8 as the specification words it: the answer of findPath(from, to) leaves
\* `from` out and ends at `to`, its nodes are adjacent in turn, and its first
\* node is adjacent to `from`
C8_PathExcludesFrom ==
    route # None /\ route[1].path # None /\ route[1].from # route[1].to =>
        LET r == route[1]
            p == r.path[1]
        IN /\ p # <<>> /\ \A i \in 1..Len(p) : p[i] # r.from
           /\ Last(p) = r.to
           /\ p[1] \in tracks[r.from].connections
           /\ Adjacent(p)

\* C8: the answer of pathfind(from, to) begins with `from` and ends at `to`,
\* and its nodes are adjacent in turn; for the track A-B-C, pathfind(A, C) is
\* [A, B, C].  A train standing at `to` that asked for the way from its
\* target `from` pops its own node, and what it then follows from the back
\* leaves its node out, begins next to it and ends at the target.
C8_PathFromStartToGoal ==
    route # None /\ route[1].path # None =>
        LET r == route[1]
            p == r.path[1]
            travel == Reverse(pop_while_last(p, r.to))
        IN /\ p # <<>> /\ p[1] = r.from /\ Last(p) = r.to
           /\ Adjacent(p)
           /\ r.from # r.to =>
                /\ travel # <<>> /\ \A i \in 1..Len(travel) : travel[i] # r.to
                /\ travel[1] \in tracks[r.to].connections
                /\ Last(travel) = r.from
           /\ DOMAIN tracks = {0, 1, 2} /\ tracks[0].connections = {1}
                /\ tracks[1].connections = {0, 2} /\ r.from = 0 /\ r.to = 2
              => p = <<0, 1, 2>>

\* the track A-B-C and the answer to pathfind(A, C)
C8_Witness ==
    /\ DOMAIN tracks = {0, 1, 2}
    /\ tracks[0].connections = {1} /\ tracks[1].connections = {0, 2}
    /\ route = Some([from |-> 0, to |-> 2, path |-> Some(<<0, 1, 2>>)])

\* C9 as the specification words it: a train that follows the answer of
\* findPath(a, b) has its head on b, at ratio 1 and with no route left, as
\* soon as the advance it has accumulated is the length of the route or more
C9_ReplayLandsOnGoal ==
    \A t \in DOMAIN trains :
        odo[t].goal # -1 /\ odo[t].total > 0 /\ odo[t].run >= odo[t].total
        => /\ trains[t].path_from_target = None
           /\ trains[t].head.to = odo[t].goal
           /\ trains[t].head.ratio = Frac(1, 1)

\* the distance from the head of train t, after the step, to the i-th node of
\* what its tail would be untruncated
RECURSIVE Behind(_, _, _)
Behind(t, full, i) ==
    IF i = 1
    THEN FracTimes(vec_len(tracks[trains'[t].head.from].pos, tracks[trains'[t].head.to].pos),
                   trains'[t].head.ratio)
    ELSE Behind(t, full, i - 1) + vec_len(tracks[full[i - 1]].pos, tracks[full[i]].pos)

Crosses(t) ==
    /\ t \in DOMAIN trains
    /\ trains'[t].head.from = trains[t].head.to
    /\ trains'[t].head.to # trains[t].head.to

\* C10: when the head crosses a node, the tail keeps, from the head
\* backwards, the nodes whose distance behind the head is at most the body
\* length, and the first node beyond it; the nodes after that one are dropped
C10_TailTruncation ==
    [][IsUpdate =>
        \A t \in DOMAIN trains :
            Crosses(t) =>
                LET full == <<trains[t].head.to>> \o trains[t].tail_nodes
                    kept == trains'[t].tail_nodes
                IN /\ Len(kept) >= 1 /\ Len(kept) <= Len(full)
                   /\ kept = SubSeq(full, 1, Len(kept))
                   /\ \A i \in 1..(Len(kept) - 1) : Behind(t, full, i) <= trains[t].length
                   /\ Len(kept) < Len(full) => Behind(t, full, Len(kept)) > trains[t].length]_vars

\* distances 5, 12, 20 and 30 behind the head and a body of 15: the nodes at
\* 5, 12 and 20 are kept, the one at 30 is dropped
C10_Witness ==
    \E t \in DOMAIN trains :
        /\ trains[t].length = 15
        /\ tracks[trains[t].head.from].pos = <<25, 0>>
        /\ tracks[trains[t].head.to].pos = <<35, 0>>
        /\ trains[t].head.ratio = Frac(1, 2)
        /\ [i \in DOMAIN trains[t].tail_nodes |-> tracks[trains[t].tail_nodes[i]].pos]
             = << <<25, 0>>, <<18, 0>>, <<10, 0>> >>

\* train t selects a target in the call: it enters it without a route, and
\* has no target or leaves the transfer with a cargo that passes the done check
Selects(t) ==
    /\ trains[t].path_from_target = None
    /\ \/ trains[t].target = None
       \/ IF TargetIo(t).ty = "Input" THEN Abs(trains'[t].amount) < DEFAULT_EPS
          ELSE Abs(capacity - trains'[t].amount) < DEFAULT_EPS

\* the ports a selecting train chooses from, and whether there is a way to one
Wanted(t) ==
    {p \in (DOMAIN factories) \X (1..2) :
        /\ p[2] \in DOMAIN factories[p[1]].io
        /\ factories[p[1]].io[p[2]].ty =
              (IF 2 * trains'[t].amount > capacity THEN "Input" ELSE "Output")
        /\ factories[p[1]].io[p[2]].resource = trains[t].resource}

Routable(t, p) == Distance(tracks, factories[p[1]].io[p[2]].node, trains[t].head.to) # -1

\* C11: a train that selects a target while no port matches or no route
\* leads to any matching port commits nothing: it keeps its old target (or
\* none), has no route, and its head and trailing nodes are as before, its
\* cargo as the transfer at the old target left it (untouched if it had no
\* target); the selection runs again in every later tick, and commits as
\* soon as every matching port has a route
C11_NoRouteNoCommit ==
    [][IsUpdate =>
        \A t \in DOMAIN trains :
            Selects(t) =>
                /\ trains[t].target = None => trains'[t].amount = trains[t].amount
                /\ (\A p \in Wanted(t) : ~Routable(t, p))
                    => trains'[t] = [trains[t] EXCEPT !.amount = trains'[t].amount]
                /\ (Wanted(t) # {} /\ \A p \in Wanted(t) : Routable(t, p))
                    => trains'[t].target \in
                          {Some([factory |-> p[1], io |-> p[2] - 1]) : p \in Wanted(t)}]_vars

\* a train whose selection failed in the first tick, for want of a route,
\* and committed a target in the second, after the track was drawn
C11_Witness ==
    /\ ticks = 2
    /\ \E t \in DOMAIN trains :
        odo[t].failed >= 1 /\ trains[t].target # None /\ trains[t].amount = 0

\* C12: spawn_factory with an index outside the catalog does nothing: no
\* factory, node or resource is made, no id is taken, and the rest of the
\* game is as it was
C12_OutOfRangeSpawnIsNoOp ==
    \A pos \in SpawnCentres, angle \in Angles, index \in FactoryKeys :
        index >= Len(factory_types) => spawn_factory(Game, pos, angle, index) = Game

\* a game with a factory and a train in it, which the key of index 4 leaves
\* as it is and the key of index 0 does not
C12_Witness ==
    /\ DOMAIN factories # {} /\ DOMAIN trains # {}
    /\ 4 \in FactoryKeys /\ 4 >= Len(factory_types)
    /\ spawn_factory(Game, <<6, 4>>, 0, 4) = Game
    /\ spawn_factory(Game, <<6, 4>>, 0, 0).id_gen > id_gen

\* the ports of the game, and the resource name the catalog gives a port
Ports ==
    {p \in (DOMAIN factories) \X (1..2) : p[2] \in DOMAIN factories[p[1]].io}

ConfiguredName(p) == factory_types[factories[p[1]].ty + 1].io[p[2]].resource

RegistryInjective ==
    /\ \A r, q \in DOMAIN resources : resources[r] = resources[q] => r = q
    /\ \A p \in Ports :
        /\ factories[p[1]].io[p[2]].resource \in DOMAIN resources
        /\ resources[factories[p[1]].io[p[2]].resource] = ConfiguredName(p)
    /\ \A p, q \in Ports :
        factories[p[1]].io[p[2]].resource = factories[q[1]].io[q[2]].resource
            <=> ConfiguredName(p) = ConfiguredName(q)

RegistryStable ==
    /\ \A r \in DOMAIN resources : r \in DOMAIN resources' /\ resources'[r] = resources[r]
    /\ \A p \in Ports :
        /\ p[1] \in DOMAIN factories'
        /\ factories'[p[1]].io[p[2]].resource = factories[p[1]].io[p[2]].resource

\* C13: the registry maps names to ids injectively and stably: two ports
\* have the same resource id iff their configured names are equal, no two
\* entries share a name, and an entry and a port's resource id, once made,
\* never change
C13_RegistryInjectiveAndStable == []RegistryInjective /\ [][RegistryStable]_vars

\* two factories with ports of the same resource, and one registry entry
C13_Witness ==
    \E f, g \in DOMAIN factories :
        /\ f # g
        /\ factories[f].io[1].resource = factories[g].io[1].resource
        /\ Cardinality(DOMAIN resources) = 1

\* the ids in use, by kind
KindsOfIds == <<DOMAIN tracks, DOMAIN factories, DOMAIN resources, DOMAIN trains>>

AllIds == UNION {KindsOfIds[k] : k \in 1..4}

IdsDistinct ==
    /\ \A k, l \in 1..4 : k # l => KindsOfIds[k] \cap KindsOfIds[l] = {}
    /\ AllIds = 0..(id_gen - 1)
    /\ \A f \in DOMAIN factories : \A i, j \in DOMAIN factories[f].io :
        /\ f < factories[f].io[i].node
        /\ i < j => factories[f].io[i].node < factories[f].io[j].node

IdsIncrease ==
    /\ id_gen' >= id_gen
    /\ DOMAIN tracks \subseteq DOMAIN tracks' /\ DOMAIN factories \subseteq DOMAIN factories'
    /\ DOMAIN resources \subseteq DOMAIN resources' /\ DOMAIN trains \subseteq DOMAIN trains'
    /\ \A new \in (DOMAIN tracks' \cup DOMAIN factories' \cup DOMAIN resources'
                    \cup DOMAIN trains') \ AllIds :
            \A old \in AllIds : new > old

\* C14: every id issued is distinct from every id issued before it, whatever
\* the kind of thing it names (node, factory, resource, train), and the ids
\* come in strictly increasing order
C14_IdsUniqueAndIncreasing == []IdsDistinct /\ [][IdsIncrease]_vars

\* a game with a thing of every kind: a factory with its port node and its
\* resource, a drawn node, and a train
C14_Witness ==
    /\ \A k \in 1..4 : KindsOfIds[k] # {}
    /\ Cardinality(DOMAIN tracks) >= 2
    /\ id_gen >= 5

\* what a call of update with delta time dt may leave, the trains taken in
\* `order`: one game for each way the random draws and the searches may go
Outcomes(dt, order) == update_trains(update_factories(Game, dt), order, dt)

\* two runs of the second loop in which every random draw and every search
\* gave the same: each train has the same target and the same route
SameChoices(m1, m2) ==
    \A t \in DOMAIN trains :
        /\ m1.trains[t].target = m2.trains[t].target
        /\ m1.trains[t].path_from_target = m2.trains[t].path_from_target

C16_RatioWithinUnit ==
    \A t \in DOMAIN trains :
        /\ 0 <= trains[t].head.ratio.num
        /\ trains[t].head.ratio.num <= trains[t].head.ratio.den

\* the length of the segment the head of train t is on, and how far along
\* it the head is once the advance of the call is added
HeadSegment(t) == vec_len(tracks[trains[t].head.from].pos, tracks[trains[t].head.to].pos)

HeadProgress(t) ==
    FracTimes(HeadSegment(t), trains[t].head.ratio) + train_speed * delta_time'

TailFollowsHead ==
    \A t \in DOMAIN trains :
        LET tail == trains[t].tail_nodes
        IN /\ tail # <<>> => tail[1] = trains[t].head.from
           /\ \A i \in 1..(Len(tail) - 1) : tail[i + 1] \in tracks[tail[i]].connections

CrossingCarries ==
    \A t \in DOMAIN trains :
        /\ Crosses(t) =>
            /\ trains'[t].tail_nodes # <<>>
            /\ trains'[t].tail_nodes[1] = trains[t].head.to
            /\ trains'[t].head.to \in tracks[trains[t].head.to].connections
            /\ FracTimes(vec_len(tracks[trains'[t].head.from].pos,
                                 tracks[trains'[t].head.to].pos), trains'[t].head.ratio)
                 = HeadProgress(t) - HeadSegment(t)
        /\ LET ahead == IF trains[t].path_from_target = None THEN <<>>
                        ELSE pop_while_last(trains[t].path_from_target[1], trains[t].head.to)
           IN ahead # <<>> /\ HeadProgress(t) >= HeadSegment(t)
              => /\ Crosses(t)
                 /\ trains'[t].head.to = Last(ahead)
                 /\ trains'[t].path_from_target = Some(Front(ahead))

\* C17: when the head reaches or passes the end of its segment and the route
\* has a next node, the far node of the old segment goes to the front of the
\* tail and becomes head.from, and the distance left over is carried onto the
\* new segment; so after every call a tail that is not empty begins with
\* head.from, and its nodes are adjacent in turn
C17_CrossingPushesFarNode ==
    []TailFollowsHead /\ [][IsUpdate => CrossingCarries]_vars

\* a train on its route, three nodes behind it, part of the way along a segment
C17_Witness ==
    \E t \in DOMAIN trains :
        /\ trains[t].path_from_target # None
        /\ Len(trains[t].tail_nodes) >= 3
        /\ 0 < trains[t].head.ratio.num
        /\ trains[t].head.ratio.num < trains[t].head.ratio.den

\* C18: a train that enters a call of update with a route neither
\* transfers cargo nor selects a target in it: its cargo, its resource and
\* its target are unchanged, and the port it is bound for, if no train is at
\* it, holds what the flow of the factory alone left
C18_MidRouteNoTransfer ==
    [][IsUpdate =>
        \A t \in DOMAIN trains :
            trains[t].path_from_target # None =>
                /\ trains'[t].amount = trains[t].amount
                /\ trains'[t].resource = trains[t].resource
                /\ trains'[t].target = trains[t].target
                /\ LET f == trains[t].target[1].factory
                       i == trains[t].target[1].io + 1
                   IN factories[f].io[i].amount # None /\ TrainsAt(f, i) = {}
                      => factories'[f].io[i].amount = Some(Flowed(f, i, delta_time'))]_vars

\* a train two nodes or more into its route, empty, while the port it is
\* bound for holds cargo
C18_Witness ==
    \E t \in DOMAIN trains :
        /\ trains[t].path_from_target # None
        /\ Len(trains[t].tail_nodes) >= 2
        /\ trains[t].amount = 0
        /\ TargetIo(t).ty = "Output" /\ TargetIo(t).amount # None
        /\ TargetIo(t).amount[1] > 0

\* the direction the rule gives for a cargo: Input above half the capacity,
\* Output at half of it and below
DirectionFor(amount) == IF 2 * amount > capacity THEN "Input" ELSE "Output"

LooksForByHalf == \A amount \in 0..capacity : look_for(amount) = DirectionFor(amount)

CommitsWhatItLooksFor ==
    \A t \in DOMAIN trains :
        /\ trains[t].path_from_target = None
        /\ trains'[t].target # trains[t].target \/ trains'[t].path_from_target # None
        => LET io == factories[trains'[t].target[1].factory].io[trains'[t].target[1].io + 1]
           IN /\ io.ty = DirectionFor(trains'[t].amount)
              /\ io.resource = trains[t].resource

\* C19: a train that selects a target looks for Input ports if its cargo is
\* above half the capacity and for Output ports otherwise, also at exactly
\* half; a target it commits has that direction and the train's resource
C19_LooksForByCargo == []LooksForByHalf /\ [][IsUpdate => CommitsWhatItLooksFor]_vars

\* a train, nearly full, on its way to an Input port of its resource
C19_Witness ==
    \E t \in DOMAIN trains :
        /\ trains[t].path_from_target # None
        /\ 2 * trains[t].amount > capacity
        /\ TargetIo(t).ty = "Input"
        /\ TargetIo(t).resource = trains[t].resource

\* a train alone at a rated Output port loads from what the port holds once
\* the flow of this call has been added
LoadsAfterFlow ==
    \A p \in RatedPorts("Output") : \A t \in TrainsAt(p[1], p[2]) :
        TrainsAt(p[1], p[2]) = {t} =>
            trains'[t].amount - trains[t].amount =
                Min(Min(capacity - trains[t].amount, train_load_speed * delta_time'),
                    Flowed(p[1], p[2], delta_time'))

\* a train that commits a route in this call is advanced along it in the
\* same call: from a node other than the port's it crosses onto the first
\* segment with the advance of the call, at the port's node it arrives
AdvancesWhenCommitted ==
    \A t \in DOMAIN trains :
        /\ trains[t].path_from_target = None
        /\ trains'[t].target # trains[t].target
        => LET port == factories[trains'[t].target[1].factory].io[trains'[t].target[1].io + 1]
           IN IF port.node = trains[t].head.to
              THEN trains'[t].path_from_target = None /\ trains'[t].head.ratio = Frac(1, 1)
              ELSE /\ Crosses(t)
                   /\ trains'[t].path_from_target # None
                   /\ FracTimes(vec_len(tracks[trains'[t].head.from].pos,
                                        tracks[trains'[t].head.to].pos), trains'[t].head.ratio)
                        = HeadProgress(t) - HeadSegment(t)

\* C20: within a call of update the factories flow first, then the trains
\* transfer cargo and select targets, then the trains advance: a train
\* loads from the port's buffer as this call's production has raised it,
\* and a train that commits a route starts along it in the same call
C20_FlowThenTrainsThenAdvance ==
    [][IsUpdate => LoadsAfterFlow /\ AdvancesWhenCommitted]_vars

\* a train that loaded 6 in a call of delta time 2 from a port that held
\* nothing before the call (the call before it had delta time 0)
C20_Witness ==
    /\ ticks = 2 /\ delta_time = 2
    /\ \E t \in DOMAIN trains :
        /\ AtPort(t) /\ TargetIo(t).ty = "Output"
        /\ trains[t].amount = 6 /\ TargetIo(t).amount = Some(0)

\* the catalog entry of port i of factory f
PortConfig(f, i) == factory_types[factories[f].ty + 1].io[i]

\* a port has a buffer exactly when the catalog gives it a rate, and no
\* update has run yet only while every buffer is still 0
BufferIffRate ==
    \A f \in DOMAIN factories : \A i \in DOMAIN factories[f].io :
        /\ factories[f].io[i].amount # None <=> PortConfig(f, i).speed # None
        /\ ticks = 0 /\ factories[f].io[i].amount # None => factories[f].io[i].amount = Some(0)

\* a factory that appears in a step has buffers of 0 at its rated ports
FreshBuffersEmpty ==
    \A f \in DOMAIN factories' \ DOMAIN factories : \A i \in DOMAIN factories'[f].io :
        factories'[f].io[i].amount \in {None, Some(0)}

\* no step changes a port without a rate, and no step gives or takes a buffer
RatelessUntouched ==
    \A f \in DOMAIN factories : \A i \in DOMAIN factories[f].io :
        /\ f \in DOMAIN factories' /\ i \in DOMAIN factories'[f].io
        /\ factories'[f].io[i].amount = None <=> factories[f].io[i].amount = None
        /\ PortConfig(f, i).speed = None => factories'[f].io[i] = factories[f].io[i]

\* C21: a port has a buffered amount if and only if the catalog configures a
\* rate for it; the buffer starts at 0 when the factory is spawned, and no
\* operation (the flow of the factories, a train loading or unloading)
\* creates, removes or changes the absent buffer of a port without a rate
C21_BufferIffRate ==
    []BufferIffRate /\ [][FreshBuffersEmpty /\ RatelessUntouched]_vars

\* a train that came to the depot more than half full and has unloaded part
\* of its cargo there: the depot's port still has no buffer
C21_Witness ==
    \E t \in DOMAIN trains :
        /\ AtPort(t)
        /\ TargetIo(t).ty = "Input" /\ TargetIo(t).amount = None
        /\ trains[t].amount > 0 /\ 2 * trains[t].amount <= capacity

\* C22: a train transfers cargo only while it stands at its target port: in
\* every state between two calls of update, a train that has a target and
\* no route has its head on the node of the target port, and at ratio 1 if
\* it has left the node it was spawned on
C22_AtTargetWhenTransferring ==
    \A t \in DOMAIN trains :
        AtPort(t) =>
            /\ trains[t].head.to = TargetIo(t).node
            /\ trains[t].head.from # trains[t].head.to => trains[t].head.ratio = Frac(1, 1)

\* a train that has travelled to its port and has loaded or unloaded there
C22_Witness ==
    \E t \in DOMAIN trains :
        /\ AtPort(t)
        /\ trains[t].head.from # trains[t].head.to
        /\ odo[t].total > 0 /\ odo[t].run >= odo[t].total
        /\ trains[t].amount > 0 /\ trains[t].amount < capacity

\* the target of a train, while it has one, is a port of the train's resource
TargetOfOwnResource ==
    \A t \in DOMAIN trains :
        trains[t].target # None => TargetIo(t).resource = trains[t].resource

\* no step changes the resource of a train or of a port
ResourceFixed ==
    /\ \A t \in DOMAIN trains : t \in DOMAIN trains' /\ trains'[t].resource = trains[t].resource
    /\ \A p \in Ports :
        /\ p[1] \in DOMAIN factories' /\ p[2] \in DOMAIN factories'[p[1]].io
        /\ factories'[p[1]].io[p[2]].resource = factories[p[1]].io[p[2]].resource

\* C23: the resource of a train's cargo is fixed when the train is spawned
\* and never changes, and whenever a train has a target the resource of the
\* target port is the resource of the train, so a train never loads or
\* unloads a resource of another kind
C23_CargoKindFixed == []TargetOfOwnResource /\ [][ResourceFixed]_vars

\* a train that has unloaded into an Input port of its resource while the
\* game has an Input port of another resource as well
C23_Witness ==
    \E t \in DOMAIN trains :
        /\ AtPort(t)
        /\ TargetIo(t).ty = "Input" /\ TargetIo(t).amount # None /\ TargetIo(t).amount[1] > 0
        /\ \E p \in Ports :
            /\ factories[p[1]].io[p[2]].ty = "Input"
            /\ factories[p[1]].io[p[2]].resource # trains[t].resource

\* the head of every train is on its spawn node or on a segment of track,
\* and the route a train has left is a walk along the track that starts
\* next to the node the head moves to
HeadOnTrack ==
    \A t \in DOMAIN trains :
        LET head == trains[t].head
        IN /\ head.from \in DOMAIN tracks /\ head.to \in DOMAIN tracks
           /\ head.from = head.to \/ head.to \in tracks[head.from].connections
           /\ trains[t].path_from_target # None =>
                LET path == trains[t].path_from_target[1]
                IN /\ \A i \in 1..(Len(path) - 1) :
                        /\ path[i] \in DOMAIN tracks
                        /\ path[i + 1] \in tracks[path[i]].connections
                   /\ path # <<>> => Last(path) \in tracks[head.to].connections

\* no step removes a node or a connection, or moves a node
TrackOnlyGrows ==
    \A n \in DOMAIN tracks :
        /\ n \in DOMAIN tracks'
        /\ tracks'[n].pos = tracks[n].pos
        /\ tracks[n].connections \subseteq tracks'[n].connections

\* C24: between two calls of update the head of every train lies on an
\* existing segment of track or on its spawn node, and the nodes that remain
\* in a route are adjacent one to the next, however the calls of update are
\* interleaved with the creation of nodes, the drawing of connections and
\* the spawning of factories: nodes and connections are never removed
C24_HeadStaysOnTrack == []HeadOnTrack /\ [][TrackOnlyGrows]_vars

\* a train on its way from a node by way of a second node to a port, after
\* a direct and shorter connection from the first node to the port has been
\* drawn: the route was committed before that connection existed
C24_Witness ==
    \E t \in DOMAIN trains :
        /\ trains[t].path_from_target # None
        /\ trains[t].path_from_target[1] # <<>>
        /\ trains[t].head.from # trains[t].head.to
        /\ trains[t].path_from_target[1][1] \in tracks[trains[t].head.from].connections
        /\ trains[t].path_from_target[1][1] # trains[t].head.to

\* the transfer step of one train, taken after the flow of a call of any
\* delta time: the cargo of the train and the buffer of its rated target
\* port have the same sum before and after it, and the step changes no
\* other train and no other port
TransferConserves ==
    \A dt \in Dts : \A t \in DOMAIN trains :
        AtPort(t) /\ TargetIo(t).amount # None =>
            LET before == update_factories(Game, dt)
                after == train_transfer(before, t, dt).g
                f == trains[t].target[1].factory
                i == trains[t].target[1].io + 1
            IN /\ after.trains[t].amount + after.factories[f].io[i].amount[1]
                    = before.trains[t].amount + before.factories[f].io[i].amount[1]
               /\ \A u \in DOMAIN trains \ {t} : after.trains[u] = before.trains[u]
               /\ \A p \in Ports \ {<<f, i>>} :
                    after.factories[p[1]].io[p[2]] = before.factories[p[1]].io[p[2]]

\* over a call of update, the cargo of the trains that stand at a rated port
\* and the buffer of the port, as the flow of the call leaves it, have the
\* same sum before and after the transfers
PortsConserve ==
    \A p \in RatedPorts("Input") \cup RatedPorts("Output") :
        LET at == TrainsAt(p[1], p[2])
        IN Sum([t \in at |-> trains'[t].amount], at) + factories'[p[1]].io[p[2]].amount[1]
             = Sum([t \in at |-> trains[t].amount], at) + Flowed(p[1], p[2], delta_time')

\* C25: cargo transfer with a rated port conserves quantity and is applied
\* whole within one call of update: over the transfer step of a train the
\* sum of the train's cargo and the buffer of its target port is the same
\* before and after (what leaves the port enters the train, what leaves the
\* train enters the port)
C25_TransferConservesCargo ==
    []TransferConserves /\ [][IsUpdate => PortsConserve]_vars

\* a train that has unloaded part of its cargo into a rated Input port: what
\* it still carries and what the port holds add up to the capacity
C25_Witness ==
    \E t \in DOMAIN trains :
        /\ AtPort(t)
        /\ TargetIo(t).ty = "Input" /\ TargetIo(t).amount # None
        /\ trains[t].amount > 0 /\ TargetIo(t).amount[1] > 0
        /\ trains[t].amount + TargetIo(t).amount[1] = capacity

====
